---- MODULE Spec2Model ----
(***************************************************************************)
(* Model of the multi-platform integration layer of delivery-control:      *)
(* the two platform clients (AnotaAI, DeliveryVip) with their cached       *)
(* access token and background renewer, the platform gateway               *)
(* (PlatformService) with its single, bulk and status operations, and the  *)
(* HTTP handlers that validate a request and classify the gateway's error. *)
(*                                                                         *)
(* Texts (error messages) are sequences of words, so that strings.Contains *)
(* is a contiguous sub-sequence test and is case sensitive as in Go.       *)
(***************************************************************************)
EXTENDS Integers, Sequences, FiniteSets, TLC

(***************************************************************************)
(* Bounds of the model.                                                    *)
(***************************************************************************)
MaxIds == 2

(***************************************************************************)
(* Vocabulary: models package.                                             *)
(***************************************************************************)
PlataformaAnotaAi == "anotaai"
PlataformaDeliveryVip == "deliveryvip"

StatusAtivo == "ativo"
StatusInativo == "inativo"
StatusNaoEncontrado == "nao_encontrado"

ErroRequisicaoInvalida == "invalid_request"
ErroNaoAutorizado == "unauthorized"
ErroNaoEncontrado == "not_found"
ErroBadGateway == "bad_gateway"
ErroInternoServidor == "internal_server_error"

TipoErro ==
  {ErroRequisicaoInvalida, ErroNaoAutorizado, ErroNaoEncontrado,
   ErroBadGateway, ErroInternoServidor}

\* The two platform clients the gateway owns.
Clients == {PlataformaAnotaAi, PlataformaDeliveryVip}

\* Values of the :plataforma path parameter: the supported ones, an
\* unsupported one and the missing parameter.
PlatformParams == Clients \cup {"ifood", ""}

\* Store identifiers a request may carry.
StoreIds == {"s1", "s2"}

\* Access tokens a platform may issue; "" is the empty cache and also what
\* a decoded body without the access_token field yields.
Tokens == {"tk1"}
TokenValues == Tokens \cup {""}

(***************************************************************************)
(* Texts.                                                                  *)
(***************************************************************************)
\* strings.Contains(s, pat) on word sequences.
Contains(s, pat) ==
  \E k \in 0..(Len(s) - Len(pat)) : SubSeq(s, k + 1, k + Len(pat)) = pat

LojaNaoEncontradaPattern == <<"loja", "não", "encontrada">>
StoreNotFoundPattern == <<"store", "not", "found">>

MsgTokenIndisponivel == <<"token", "de", "acesso", "não", "disponível">>
MsgPlataformaNaoSuportada == <<"plataforma", "não", "suportada", ":">>
PlataformaNaoSuportadaPattern == <<"plataforma", "não", "suportada">>

\* Text of a transport failure reported by net/http.
TransportText == <<"dial", "tcp:", "connection", "refused">>

\* Mensagem values an AnotaAI body may carry.
AnotaAiMensagens ==
  { <<"loja", "não", "encontrada">>,
    <<"store", "not", "found">>,
    <<"Loja", "bloqueada">> }

(***************************************************************************)
(* Errors.  kind "nil" is Go's nil error, "plain" an error made by         *)
(* fmt.Errorf, "dv" a *DeliveryVipError.  wrap is the prefix a caller put  *)
(* in front with fmt.Errorf("...: %w", err); a wrapped DeliveryVipError is *)
(* still found by errors.As but no longer by a type assertion.             *)
(***************************************************************************)
NilErr == [kind |-> "nil", status |-> 0, tipo |-> "nil", msg |-> <<>>, wrap |-> <<>>]

PlainErr(m) == [kind |-> "plain", status |-> 0, tipo |-> "nil", msg |-> m, wrap |-> <<>>]

\* fmt.Errorf(prefix + ": %w", e)
Wrap(prefix, e) == [e EXCEPT !.wrap = prefix \o e.wrap]

\* err.Error()
ErrorText(e) == e.wrap \o e.msg

\* NewDeliveryVipError(httpStatus, responseBody)
NewDeliveryVipError(httpStatus, responseBody) ==
  CASE httpStatus = 404 ->
         [kind |-> "dv", status |-> httpStatus, tipo |-> ErroNaoEncontrado,
          msg |-> <<"Loja", "não", "encontrada", "na", "plataforma">>, wrap |-> <<>>]
    [] httpStatus = 401 ->
         [kind |-> "dv", status |-> httpStatus, tipo |-> ErroNaoAutorizado,
          msg |-> <<"Erro", "de", "autenticação", "com", "a", "plataforma">>, wrap |-> <<>>]
    [] httpStatus = 422 ->
         [kind |-> "dv", status |-> httpStatus, tipo |-> ErroRequisicaoInvalida,
          msg |-> <<"Dados", "inválidos", "para", "a", "operação">>, wrap |-> <<>>]
    [] OTHER ->
         [kind |-> "dv", status |-> httpStatus, tipo |-> ErroBadGateway,
          msg |-> <<"Erro", "na", "comunicação", "com", "a", "plataforma", "-",
                    "Status:", ToString(httpStatus), "Resposta:">> \o responseBody,
          wrap |-> <<>>]

(***************************************************************************)
(* What a platform may answer to one outbound HTTP call.                   *)
(***************************************************************************)
\* Answers of the AnotaAI activate/block endpoints.
AnotaAiOpResponses ==
  { [transport |-> TRUE, status |-> 0, decodable |-> FALSE, success |-> FALSE, mensagem |-> <<>>] }
  \cup { [transport |-> FALSE, status |-> s, decodable |-> FALSE, success |-> FALSE, mensagem |-> <<>>]
         : s \in {200, 401, 404} }
  \cup { [transport |-> FALSE, status |-> s, decodable |-> TRUE, success |-> TRUE, mensagem |-> <<>>]
         : s \in {200, 404} }
  \cup { [transport |-> FALSE, status |-> 200, decodable |-> TRUE, success |-> FALSE, mensagem |-> m]
         : m \in AnotaAiMensagens }

\* Answers of the DeliveryVip block/unblock endpoints; the body of a 500
\* may itself speak of a store that was not found.
DeliveryVipOpResponses ==
  { [transport |-> TRUE, status |-> 0, body |-> <<>>] }
  \cup { [transport |-> FALSE, status |-> s, body |-> <<"{}">>]
         : s \in {202, 200, 401, 404, 422, 500} }
  \cup { [transport |-> FALSE, status |-> 500, body |-> StoreNotFoundPattern] }

\* Placeholder answer of a call that is never issued.
NoAnswer == [transport |-> TRUE, status |-> 0]

OpResponses(c) ==
  IF c = PlataformaAnotaAi THEN AnotaAiOpResponses ELSE DeliveryVipOpResponses

\* Answers of the login / OAuth token endpoints.
AnotaAiAuthResponses ==
  { [transport |-> TRUE, status |-> 0, decodable |-> FALSE, success |-> FALSE, access_token |-> ""] }
  \cup { [transport |-> FALSE, status |-> 401, decodable |-> FALSE, success |-> FALSE, access_token |-> ""] }
  \cup { [transport |-> FALSE, status |-> 200, decodable |-> FALSE, success |-> FALSE, access_token |-> ""] }
  \cup { [transport |-> FALSE, status |-> 200, decodable |-> TRUE, success |-> s, access_token |-> t]
         : s \in BOOLEAN, t \in TokenValues }

\* The DeliveryVip token response carries no success flag.
DeliveryVipAuthResponses ==
  { [transport |-> TRUE, status |-> 0, decodable |-> FALSE, access_token |-> ""] }
  \cup { [transport |-> FALSE, status |-> 401, decodable |-> FALSE, access_token |-> ""] }
  \cup { [transport |-> FALSE, status |-> 200, decodable |-> FALSE, access_token |-> ""] }
  \cup { [transport |-> FALSE, status |-> 200, decodable |-> TRUE, access_token |-> t]
         : t \in TokenValues }

\* Credentials of the AnotaAI login as the process configuration gives them.
AnotaAiConfigs == {"ok", "no_email", "no_password"}

\* What one renewToken call of client c meets: the credentials it reads
\* from the configuration and the answer to its request.  Only AnotaAI
\* looks at the credentials, and without them it sends no request.
AuthInputs(c) ==
  IF c = PlataformaAnotaAi
    THEN { <<cfg, NoAnswer>> : cfg \in AnotaAiConfigs \ {"ok"} }
         \cup { <<"ok", r>> : r \in AnotaAiAuthResponses }
    ELSE { <<"ok", r>> : r \in DeliveryVipAuthResponses }

(***************************************************************************)
(* Platform clients: single-store operations.  Each returns the error      *)
(* (NilErr on success) and the number of outbound HTTP calls it issued.     *)
(***************************************************************************)
\* Variant of AnotaAiActivateStore that sends the request without looking at
\* the token first.
AnotaAiActivateStoreNoTokenCheck(tok, r) ==
  IF r.transport
    THEN [err |-> PlainErr(<<"erro", "na", "requisição", "de", "ativação:">> \o TransportText),
          http |-> 1]
  ELSE IF r.status # 200
    THEN [err |-> PlainErr(<<"erro", "na", "ativação", "-", "status:", ToString(r.status)>>),
          http |-> 1]
  ELSE IF ~r.decodable \/ ~r.success
    THEN [err |-> PlainErr(<<"ativação", "falhou:">> \o r.mensagem), http |-> 1]
  ELSE [err |-> NilErr, http |-> 1]

\* Variant of AnotaAiActivateStore that accepts every decodable 200 answer.
AnotaAiActivateStoreIgnoreSuccess(tok, r) ==
  IF tok = "" THEN [err |-> PlainErr(MsgTokenIndisponivel), http |-> 0]
  ELSE IF r.transport
    THEN [err |-> PlainErr(<<"erro", "na", "requisição", "de", "ativação:">> \o TransportText),
          http |-> 1]
  ELSE IF r.status # 200
    THEN [err |-> PlainErr(<<"erro", "na", "ativação", "-", "status:", ToString(r.status)>>),
          http |-> 1]
  ELSE IF ~r.decodable
    THEN [err |-> PlainErr(<<"erro", "ao", "decodificar", "resposta", "de", "ativação:",
                             "invalid", "character">>),
          http |-> 1]
  ELSE [err |-> NilErr, http |-> 1]

\* (s *AnotaAiService) ActivateStore(idLoja), given the token it reads from
\* the cache and the platform's answer r to its one PUT.
AnotaAiActivateStore(tok, r) ==
  IF tok = "" THEN [err |-> PlainErr(MsgTokenIndisponivel), http |-> 0]
  ELSE IF r.transport
    THEN [err |-> PlainErr(<<"erro", "na", "requisição", "de", "ativação:">> \o TransportText),
          http |-> 1]
  ELSE IF r.status # 200
    THEN [err |-> PlainErr(<<"erro", "na", "ativação", "-", "status:", ToString(r.status)>>),
          http |-> 1]
  ELSE IF ~r.decodable
    THEN [err |-> PlainErr(<<"erro", "ao", "decodificar", "resposta", "de", "ativação:",
                             "invalid", "character">>),
          http |-> 1]
  ELSE IF ~r.success
    THEN [err |-> PlainErr(<<"ativação", "falhou:">> \o r.mensagem), http |-> 1]
  ELSE [err |-> NilErr, http |-> 1]

\* (s *AnotaAiService) DeactivateStore(idLoja)
AnotaAiDeactivateStore(tok, r) ==
  IF tok = "" THEN [err |-> PlainErr(MsgTokenIndisponivel), http |-> 0]
  ELSE IF r.transport
    THEN [err |-> PlainErr(<<"erro", "na", "requisição", "de", "desativação:">> \o TransportText),
          http |-> 1]
  ELSE IF r.status # 200
    THEN [err |-> PlainErr(<<"erro", "na", "desativação", "-", "status:", ToString(r.status)>>),
          http |-> 1]
  ELSE IF ~r.decodable
    THEN [err |-> PlainErr(<<"erro", "ao", "decodificar", "resposta", "de", "desativação:",
                             "invalid", "character">>),
          http |-> 1]
  ELSE IF ~r.success
    THEN [err |-> PlainErr(<<"desativação", "falhou:">> \o r.mensagem), http |-> 1]
  ELSE [err |-> NilErr, http |-> 1]

\* Variant of DeliveryVipActivateStore that sends the request a second time
\* when the first one gets no answer.
DeliveryVipActivateStoreRetry(tok, r) ==
  IF tok = "" THEN [err |-> PlainErr(MsgTokenIndisponivel), http |-> 0]
  ELSE IF r.transport
    THEN [err |-> PlainErr(<<"erro", "ao", "fazer", "requisição", "de", "desbloqueio:">>
                           \o TransportText),
          http |-> 2]
  ELSE IF r.status # 202
    THEN [err |-> NewDeliveryVipError(r.status, r.body), http |-> 1]
  ELSE [err |-> NilErr, http |-> 1]

\* (s *DeliveryVipService) ActivateStore(merchantID)
DeliveryVipActivateStore(tok, r) ==
  IF tok = "" THEN [err |-> PlainErr(MsgTokenIndisponivel), http |-> 0]
  ELSE IF r.transport
    THEN [err |-> PlainErr(<<"erro", "ao", "fazer", "requisição", "de", "desbloqueio:">>
                           \o TransportText),
          http |-> 1]
  ELSE IF r.status # 202
    THEN [err |-> NewDeliveryVipError(r.status, r.body), http |-> 1]
  ELSE [err |-> NilErr, http |-> 1]

\* Variant of DeliveryVipDeactivateStore that takes any of 200 and 202 for
\* an accepted request.
DeliveryVipDeactivateStoreOk200(tok, r) ==
  IF tok = "" THEN [err |-> PlainErr(MsgTokenIndisponivel), http |-> 0]
  ELSE IF r.transport
    THEN [err |-> PlainErr(<<"erro", "ao", "fazer", "requisição", "de", "bloqueio:">>
                           \o TransportText),
          http |-> 1]
  ELSE IF r.status \notin {200, 202}
    THEN [err |-> NewDeliveryVipError(r.status, r.body), http |-> 1]
  ELSE [err |-> NilErr, http |-> 1]

\* (s *DeliveryVipService) DeactivateStore(merchantID)
DeliveryVipDeactivateStore(tok, r) ==
  IF tok = "" THEN [err |-> PlainErr(MsgTokenIndisponivel), http |-> 0]
  ELSE IF r.transport
    THEN [err |-> PlainErr(<<"erro", "ao", "fazer", "requisição", "de", "bloqueio:">>
                           \o TransportText),
          http |-> 1]
  ELSE IF r.status # 202
    THEN [err |-> NewDeliveryVipError(r.status, r.body), http |-> 1]
  ELSE [err |-> NilErr, http |-> 1]

\* The client method the gateway's switch selects for a supported platform.
ClientActivate(c, tok, r) ==
  IF c = PlataformaAnotaAi THEN AnotaAiActivateStore(tok, r)
  ELSE DeliveryVipActivateStore(tok, r)

ClientDeactivate(c, tok, r) ==
  IF c = PlataformaAnotaAi THEN AnotaAiDeactivateStore(tok, r)
  ELSE DeliveryVipDeactivateStore(tok, r)

(***************************************************************************)
(* Platform clients: authentication.  The result of one renewToken call:   *)
(* the error class it returns ("nil" on success) and, on success, the      *)
(* token it writes to the cache.                                           *)
(***************************************************************************)
\* (s *DeliveryVipService) renewToken()
DeliveryVipRenewToken(r) ==
  IF r.transport THEN [err |-> "transport", write |-> FALSE, token |-> ""]
  ELSE IF r.status # 200 THEN [err |-> "status", write |-> FALSE, token |-> ""]
  ELSE IF ~r.decodable THEN [err |-> "decode", write |-> FALSE, token |-> ""]
  ELSE [err |-> "nil", write |-> TRUE, token |-> r.access_token]

\* Variant of AnotaAiRenewToken that stores the decoded token before it
\* looks at the success flag.
AnotaAiRenewTokenWriteFirst(cfg, r) ==
  IF cfg # "ok" THEN [err |-> "config", write |-> FALSE, token |-> ""]
  ELSE IF r.transport THEN [err |-> "transport", write |-> FALSE, token |-> ""]
  ELSE IF r.status # 200 THEN [err |-> "status", write |-> FALSE, token |-> ""]
  ELSE IF ~r.decodable THEN [err |-> "decode", write |-> FALSE, token |-> ""]
  ELSE IF ~r.success THEN [err |-> "success_false", write |-> TRUE, token |-> r.access_token]
  ELSE [err |-> "nil", write |-> TRUE, token |-> r.access_token]

\* (s *AnotaAiService) renewToken()
AnotaAiRenewToken(cfg, r) ==
  IF cfg # "ok" THEN [err |-> "config", write |-> FALSE, token |-> ""]
  ELSE IF r.transport THEN [err |-> "transport", write |-> FALSE, token |-> ""]
  ELSE IF r.status # 200 THEN [err |-> "status", write |-> FALSE, token |-> ""]
  ELSE IF ~r.decodable THEN [err |-> "decode", write |-> FALSE, token |-> ""]
  ELSE IF ~r.success THEN [err |-> "success_false", write |-> FALSE, token |-> ""]
  ELSE [err |-> "nil", write |-> TRUE, token |-> r.access_token]

ClientRenewToken(c, cfg, r) ==
  IF c = PlataformaAnotaAi THEN AnotaAiRenewToken(cfg, r) ELSE DeliveryVipRenewToken(r)

(***************************************************************************)
(* Platform gateway: the outcome recorded for one item of a bulk request:   *)
(* a ResultadoOperacaoLoja without its Mensagem text, which depends on     *)
(* the same branch as the other fields and on nothing else.                *)
(***************************************************************************)
\* Variant of ResultadoAtivar whose last error branch sets no error kind.
ResultadoAtivarSemErro(idLoja, e) ==
  IF e.kind # "nil" THEN
    IF e.kind = "dv" /\ e.wrap = <<>> THEN
      [IdLoja |-> idLoja, Status |-> StatusAtivo, Sucesso |-> FALSE,
       Erro |-> e.tipo]
    ELSE IF Contains(ErrorText(e), LojaNaoEncontradaPattern)
            \/ Contains(ErrorText(e), StoreNotFoundPattern) THEN
      [IdLoja |-> idLoja, Status |-> StatusNaoEncontrado, Sucesso |-> FALSE,
       Erro |-> ErroNaoEncontrado]
    ELSE
      [IdLoja |-> idLoja, Status |-> StatusAtivo, Sucesso |-> FALSE,
       Erro |-> "nil"]
  ELSE
    [IdLoja |-> idLoja, Status |-> StatusAtivo, Sucesso |-> TRUE,
     Erro |-> "nil"]

\* Variant of ResultadoAtivar that looks at the message before the type of
\* the error.
ResultadoAtivarPatternFirst(idLoja, e) ==
  IF e.kind # "nil" THEN
    IF Contains(ErrorText(e), LojaNaoEncontradaPattern)
       \/ Contains(ErrorText(e), StoreNotFoundPattern) THEN
      [IdLoja |-> idLoja, Status |-> StatusNaoEncontrado, Sucesso |-> FALSE,
       Erro |-> ErroNaoEncontrado]
    ELSE IF e.kind = "dv" /\ e.wrap = <<>> THEN
      [IdLoja |-> idLoja, Status |-> StatusAtivo, Sucesso |-> FALSE,
       Erro |-> e.tipo]
    ELSE
      [IdLoja |-> idLoja, Status |-> StatusAtivo, Sucesso |-> FALSE,
       Erro |-> ErroBadGateway]
  ELSE
    [IdLoja |-> idLoja, Status |-> StatusAtivo, Sucesso |-> TRUE,
     Erro |-> "nil"]

\* The if/else chain of ActivateMultipleStores for the item idLoja whose
\* client call returned e.
ResultadoAtivar(idLoja, e) ==
  IF e.kind # "nil" THEN
    IF e.kind = "dv" /\ e.wrap = <<>> THEN
      [IdLoja |-> idLoja, Status |-> StatusAtivo, Sucesso |-> FALSE,
       Erro |-> e.tipo]
    ELSE IF Contains(ErrorText(e), LojaNaoEncontradaPattern)
            \/ Contains(ErrorText(e), StoreNotFoundPattern) THEN
      [IdLoja |-> idLoja, Status |-> StatusNaoEncontrado, Sucesso |-> FALSE,
       Erro |-> ErroNaoEncontrado]
    ELSE
      [IdLoja |-> idLoja, Status |-> StatusAtivo, Sucesso |-> FALSE,
       Erro |-> ErroBadGateway]
  ELSE
    [IdLoja |-> idLoja, Status |-> StatusAtivo, Sucesso |-> TRUE,
     Erro |-> "nil"]

\* Variant of ResultadoDesativar that reports a deactivated store as active.
ResultadoDesativarStatusAtivo(idLoja, e) ==
  IF e.kind # "nil" THEN
    IF e.kind = "dv" /\ e.wrap = <<>> THEN
      [IdLoja |-> idLoja, Status |-> StatusAtivo, Sucesso |-> FALSE,
       Erro |-> e.tipo]
    ELSE IF Contains(ErrorText(e), LojaNaoEncontradaPattern)
            \/ Contains(ErrorText(e), StoreNotFoundPattern) THEN
      [IdLoja |-> idLoja, Status |-> StatusNaoEncontrado, Sucesso |-> FALSE,
       Erro |-> ErroNaoEncontrado]
    ELSE
      [IdLoja |-> idLoja, Status |-> StatusAtivo, Sucesso |-> FALSE,
       Erro |-> ErroBadGateway]
  ELSE
    [IdLoja |-> idLoja, Status |-> StatusAtivo, Sucesso |-> TRUE,
     Erro |-> "nil"]

\* The if/else chain of DeactivateMultipleStores.
ResultadoDesativar(idLoja, e) ==
  IF e.kind # "nil" THEN
    IF e.kind = "dv" /\ e.wrap = <<>> THEN
      [IdLoja |-> idLoja, Status |-> StatusAtivo, Sucesso |-> FALSE,
       Erro |-> e.tipo]
    ELSE IF Contains(ErrorText(e), LojaNaoEncontradaPattern)
            \/ Contains(ErrorText(e), StoreNotFoundPattern) THEN
      [IdLoja |-> idLoja, Status |-> StatusNaoEncontrado, Sucesso |-> FALSE,
       Erro |-> ErroNaoEncontrado]
    ELSE
      [IdLoja |-> idLoja, Status |-> StatusAtivo, Sucesso |-> FALSE,
       Erro |-> ErroBadGateway]
  ELSE
    [IdLoja |-> idLoja, Status |-> StatusInativo, Sucesso |-> TRUE,
     Erro |-> "nil"]

\* Variant of isValidPlatform that accepts every identifier.
isValidPlatformAny(p) == TRUE

\* (ps *PlatformService) isValidPlatform
isValidPlatform(p) == p = PlataformaAnotaAi \/ p = PlataformaDeliveryVip

\* The error every gateway operation returns for an unsupported platform:
\* fmt.Errorf("plataforma não suportada: %s", plataforma).
ErrPlataformaNaoSuportada(p) == PlainErr(MsgPlataformaNaoSuportada \o <<p>>)

(***************************************************************************)
(* Platform gateway: single-store operations.  The result of the whole     *)
(* operation for the token the client reads and the platform's answer r:   *)
(* the error, the returned value (<<>> is nil), the number of client       *)
(* methods invoked and of HTTP calls issued.                               *)
(***************************************************************************)
ClientName(c) == IF c = PlataformaAnotaAi THEN "AnotaAI" ELSE "DeliveryVip"

\* (ps *PlatformService) ActivateStore(plataforma, idLoja)
ActivateStore(p, idLoja, tok, r) ==
  IF ~isValidPlatform(p) THEN
    [err |-> ErrPlataformaNaoSuportada(p), ret |-> <<>>, calls |-> 0, http |-> 0]
  ELSE
    LET out == ClientActivate(p, tok, r) IN
      IF out.err.kind # "nil" THEN
        [err |-> Wrap(<<"erro", "ao", "ativar", "loja", "no", ClientName(p), ":">>, out.err),
         ret |-> <<>>, calls |-> 1, http |-> out.http]
      ELSE
        [err |-> NilErr,
         ret |-> <<[Plataforma |-> p, IdLoja |-> idLoja, Status |-> StatusAtivo]>>,
         calls |-> 1, http |-> out.http]

\* (ps *PlatformService) DeactivateStore(plataforma, idLoja)
DeactivateStore(p, idLoja, tok, r) ==
  IF ~isValidPlatform(p) THEN
    [err |-> ErrPlataformaNaoSuportada(p), ret |-> <<>>, calls |-> 0, http |-> 0]
  ELSE
    LET out == ClientDeactivate(p, tok, r) IN
      IF out.err.kind # "nil" THEN
        [err |-> Wrap(<<"erro", "ao", "desativar", "loja", "no", ClientName(p), ":">>, out.err),
         ret |-> <<>>, calls |-> 1, http |-> out.http]
      ELSE
        [err |-> NilErr,
         ret |-> <<[Plataforma |-> p, IdLoja |-> idLoja, Status |-> StatusInativo]>>,
         calls |-> 1, http |-> out.http]

(***************************************************************************)
(* Status query.                                                           *)
(***************************************************************************)
\* Longest listing a platform answers with.
MaxListing == 2

\* One merchant of the DeliveryVip listing, one page of the AnotaAI listing.
DeliveryVipMerchants ==
  [ID : StoreIds, Status : {"ACTIVATED", "SUSPENDED"}, Blocked : BOOLEAN]
AnotaAiPages == [PageID : StoreIds, Active : BOOLEAN]

\* Answers of the listing endpoints; docs is the decoded listing.
DeliveryVipListResponses ==
  { [transport |-> TRUE, status |-> 0, decodable |-> FALSE, success |-> FALSE, docs |-> <<>>],
    [transport |-> FALSE, status |-> 401, decodable |-> FALSE, success |-> FALSE, docs |-> <<>>],
    [transport |-> FALSE, status |-> 200, decodable |-> FALSE, success |-> FALSE, docs |-> <<>>] }
  \cup { [transport |-> FALSE, status |-> 200, decodable |-> TRUE, success |-> TRUE, docs |-> d]
         : d \in UNION { [1..n -> DeliveryVipMerchants] : n \in 0..MaxListing } }

AnotaAiListResponses ==
  { [transport |-> TRUE, status |-> 0, decodable |-> FALSE, success |-> FALSE, docs |-> <<>>],
    [transport |-> FALSE, status |-> 401, decodable |-> FALSE, success |-> FALSE, docs |-> <<>>],
    [transport |-> FALSE, status |-> 200, decodable |-> FALSE, success |-> FALSE, docs |-> <<>>],
    [transport |-> FALSE, status |-> 200, decodable |-> TRUE, success |-> FALSE, docs |-> <<>>] }
  \cup { [transport |-> FALSE, status |-> 200, decodable |-> TRUE, success |-> TRUE, docs |-> d]
         : d \in UNION { [1..n -> AnotaAiPages] : n \in 0..MaxListing } }

ListResponses(c) ==
  IF c = PlataformaAnotaAi THEN AnotaAiListResponses ELSE DeliveryVipListResponses

\* A Go map: a function on the set of its keys.
EmptyMap == [x \in {} |-> FALSE]
Put(m, k, v) == [x \in (DOMAIN m) \cup {k} |-> IF x = k THEN v ELSE m[x]]
SeqRange(q) == { q[k] : k \in 1..Len(q) }

\* DeliveryVip, first loop: the merchants of the listing that were asked for.
RECURSIVE DeliveryVipScan(_, _, _)
DeliveryVipScan(merchants, requestedIDs, k) ==
  IF k = 0 THEN EmptyMap
  ELSE LET m == DeliveryVipScan(merchants, requestedIDs, k - 1)
           merchant == merchants[k]
       IN IF merchant.ID \in requestedIDs
            THEN Put(m, merchant.ID,
                     [Found |-> TRUE,
                      IsActive |-> merchant.Status = "ACTIVATED" /\ ~merchant.Blocked])
            ELSE m

\* Variant of DeliveryVipFill that adds no entry for the requested ids the
\* listing does not have.
DeliveryVipFillNothing(statusMap, merchantIDs, k) == statusMap

\* DeliveryVip, second loop: the requested ids the listing does not have.
RECURSIVE DeliveryVipFill(_, _, _)
DeliveryVipFill(statusMap, merchantIDs, k) ==
  IF k = 0 THEN statusMap
  ELSE LET m == DeliveryVipFill(statusMap, merchantIDs, k - 1) IN
         IF merchantIDs[k] \in DOMAIN m THEN m
         ELSE Put(m, merchantIDs[k], [Found |-> FALSE, IsActive |-> FALSE])

\* (s *DeliveryVipService) GetMultipleStoreStatus(merchantIDs)
DeliveryVipGetMultipleStoreStatus(tok, merchantIDs, r) ==
  IF tok = "" THEN [err |-> PlainErr(MsgTokenIndisponivel), http |-> 0, statusMap |-> EmptyMap]
  ELSE IF r.transport
    THEN [err |-> PlainErr(<<"erro", "ao", "fazer", "requisição", "de", "consulta:">>
                           \o TransportText),
          http |-> 1, statusMap |-> EmptyMap]
  ELSE IF r.status # 200
    THEN [err |-> PlainErr(<<"erro", "ao", "consultar", "merchants", "-", "Status:",
                             ToString(r.status)>>),
          http |-> 1, statusMap |-> EmptyMap]
  ELSE IF ~r.decodable
    THEN [err |-> PlainErr(<<"erro", "ao", "decodificar", "resposta", "de", "merchants:",
                             "invalid", "character">>),
          http |-> 1, statusMap |-> EmptyMap]
  ELSE [err |-> NilErr, http |-> 1,
        statusMap |-> DeliveryVipFill(
                        DeliveryVipScan(r.docs, SeqRange(merchantIDs), Len(r.docs)),
                        merchantIDs, Len(merchantIDs))]

\* The StoreInfo of a listed page (without Documento and NomeFantasia).
AnotaAiStoreInfo(page) ==
  [Found |-> TRUE, IsActive |-> page.Active]

\* AnotaAI without filter: every page of the listing, a later page of the
\* same id replacing an earlier one.
RECURSIVE AnotaAiAll(_, _)
AnotaAiAll(docs, k) ==
  IF k = 0 THEN EmptyMap
  ELSE Put(AnotaAiAll(docs, k - 1), docs[k].PageID, AnotaAiStoreInfo(docs[k]))

\* AnotaAI with filter: every requested id starts as not found and takes the
\* first page of the listing with its id.
AnotaAiLookup(docs, idLoja) ==
  IF \E k \in 1..Len(docs) : docs[k].PageID = idLoja
    THEN AnotaAiStoreInfo(
           docs[CHOOSE k \in 1..Len(docs) :
                  /\ docs[k].PageID = idLoja
                  /\ \A j \in 1..(k - 1) : docs[j].PageID # idLoja])
    ELSE [Found |-> FALSE, IsActive |-> FALSE]

\* (s *AnotaAiService) GetMultipleStoreStatus(idsLojas)
AnotaAiGetMultipleStoreStatus(tok, idsLojasArg, r) ==
  IF tok = "" THEN [err |-> PlainErr(MsgTokenIndisponivel), http |-> 0, statusMap |-> EmptyMap]
  ELSE IF r.transport
    THEN [err |-> PlainErr(<<"erro", "na", "requisição", "de", "status:">> \o TransportText),
          http |-> 1, statusMap |-> EmptyMap]
  ELSE IF r.status # 200
    THEN [err |-> PlainErr(<<"erro", "na", "consulta", "de", "status", "-", "status:",
                             ToString(r.status)>>),
          http |-> 1, statusMap |-> EmptyMap]
  ELSE IF ~r.decodable
    THEN [err |-> PlainErr(<<"erro", "ao", "decodificar", "resposta", "de", "status:",
                             "invalid", "character">>),
          http |-> 1, statusMap |-> EmptyMap]
  ELSE IF ~r.success
    THEN [err |-> PlainErr(<<"consulta", "de", "status", "falhou", "-", "success:", "false">>),
          http |-> 1, statusMap |-> EmptyMap]
  ELSE IF Len(idsLojasArg) = 0
    THEN [err |-> NilErr, http |-> 1, statusMap |-> AnotaAiAll(r.docs, Len(r.docs))]
  ELSE [err |-> NilErr, http |-> 1,
        statusMap |-> [id \in SeqRange(idsLojasArg) |-> AnotaAiLookup(r.docs, id)]]

ClientGetMultipleStoreStatus(c, tok, ids, r) ==
  IF c = PlataformaAnotaAi THEN AnotaAiGetMultipleStoreStatus(tok, ids, r)
  ELSE DeliveryVipGetMultipleStoreStatus(tok, ids, r)

\* The status the gateway reports for the key idLoja of the client's map.
StatusDaLoja(c, statusMap, idLoja) ==
  IF c = PlataformaAnotaAi THEN
    IF idLoja \in DOMAIN statusMap /\ statusMap[idLoja].IsActive
      THEN StatusAtivo ELSE StatusInativo
  ELSE
    IF idLoja \in DOMAIN statusMap THEN
      IF ~statusMap[idLoja].Found THEN StatusNaoEncontrado
      ELSE IF statusMap[idLoja].IsActive THEN StatusAtivo
      ELSE StatusInativo
    ELSE StatusNaoEncontrado

\* The orders in which a range over a Go map may visit its keys.
KeyOrders(m) ==
  { q \in [1..Cardinality(DOMAIN m) -> DOMAIN m] : SeqRange(q) = DOMAIN m }

\* The Lojas list the gateway builds: the requested ids in request order,
\* or all keys of the map in the order keys the range visits them.
Lojas(c, statusMap, ids, keys) ==
  IF Len(ids) > 0
    THEN [k \in 1..Len(ids) |->
            [IdLoja |-> ids[k], Status |-> StatusDaLoja(c, statusMap, ids[k])]]
    ELSE [k \in 1..Len(keys) |->
            [IdLoja |-> keys[k], Status |-> StatusDaLoja(c, statusMap, keys[k])]]

\* strings.TrimSpace of one comma-separated field of the X-Lojas-IDs header.
TrimSpace(f) == IF f = " " THEN "" ELSE f

\* The ids the status handler extracts from the header fields: trimmed,
\* empty ones dropped.
RECURSIVE ParseIds(_)
ParseIds(fields) ==
  IF fields = <<>> THEN <<>>
  ELSE IF TrimSpace(Head(fields)) # ""
    THEN <<TrimSpace(Head(fields))>> \o ParseIds(Tail(fields))
    ELSE ParseIds(Tail(fields))

(***************************************************************************)
(* HTTP handlers: the response written for a gateway error.                *)
(***************************************************************************)
NoResponse == [code |-> 0, error |-> "nil"]
Ok200 == [code |-> 200, error |-> "nil"]
BadRequest400 == [code |-> 400, error |-> ErroRequisicaoInvalida]

\* (sh *StoreHandler) handlePlatformError, used by the bulk handlers.
handlePlatformError(param, e) ==
  IF e.kind = "dv" THEN
    [code |-> CASE e.tipo = ErroNaoEncontrado -> 404
                [] e.tipo = ErroNaoAutorizado -> 401
                [] e.tipo = ErroRequisicaoInvalida -> 400
                [] OTHER -> 502,
     error |-> e.tipo]
  ELSE IF ErrorText(e) = MsgPlataformaNaoSuportada \o <<param>> THEN
    [code |-> 404, error |-> ErroNaoEncontrado]
  ELSE
    [code |-> 502, error |-> ErroBadGateway]

\* The error branch of StoreHandler.Activate / Deactivate.
handleSingleError(param, e) ==
  IF ErrorText(e) = MsgPlataformaNaoSuportada \o <<param>> THEN
    [code |-> 404, error |-> ErroNaoEncontrado]
  ELSE
    [code |-> 502, error |-> ErroBadGateway]

\* The error branch of StoreHandler.GetMultipleStatus.
handleStatusError(e) ==
  IF Contains(ErrorText(e), PlataformaNaoSuportadaPattern) THEN
    [code |-> 404, error |-> ErroNaoEncontrado]
  ELSE
    [code |-> 502, error |-> ErroBadGateway]

(***************************************************************************)
(* State.                                                                  *)
(***************************************************************************)
VARIABLES
  accessToken,   \* accessToken[c]: the token cached by client c
  renewer,       \* renewer[c]: "authenticating" or "idle" (waiting on the ticker)
  authErr,       \* the last line the renewers logged: the client and "nil" for
                 \* a renewed token or "failed" for an error
                 \* ("none": nothing logged so far)
  pc,            \* position of the request being served
  op,            \* the operation of that request
  plataforma,    \* its :plataforma parameter
  idsLojas,      \* its store ids
  err,           \* error returned by the client call of the current bulk item
  Resultados,    \* finalResponse.Resultados built so far
  clientCalls,   \* client methods invoked by the request
  httpCalls,     \* outbound HTTP calls issued by the client method just invoked
  gwCalled,      \* whether the handler reached the gateway operation
  gwErr,         \* error returned by the gateway operation
  gwRet,         \* value returned by the gateway operation: <<>> is nil
  httpResp,      \* response the handler wrote
  tokenMutex,    \* tokenMutex[c]: the holders of client c's sync.RWMutex
  answer         \* what the platform answered to the request's outbound call,
                 \* where a specification records it (NoAnswer otherwise)

vars ==
  <<accessToken, renewer, authErr, pc, op, plataforma, idsLojas,
    err, Resultados, clientCalls, httpCalls, gwCalled, gwErr, gwRet, httpResp,
    tokenMutex, answer>>

clientVars == <<accessToken, renewer, authErr, tokenMutex>>
requestVars ==
  <<pc, op, plataforma, idsLojas, err, Resultados, clientCalls, httpCalls,
    gwCalled, gwErr, gwRet, httpResp, answer>>

\* A mutex nobody holds.
Unlocked == [writer |-> FALSE, readers |-> 0]

\* Store-id lists of a request body: every sequence of at most MaxIds ids.
IdLists == UNION { [1..n -> StoreIds] : n \in 0..MaxIds }

BulkOps == {"ativar", "desativar"}

\* NewPlatformService: both clients are constructed with an empty token and
\* their renewer goroutine started, about to make the first login.
Init ==
  /\ accessToken = [c \in Clients |-> ""]
  /\ renewer = [c \in Clients |-> "authenticating"]
  /\ authErr = [client |-> "", result |-> "none"]
  /\ pc = "idle"
  /\ op = "none"
  /\ plataforma = ""
  /\ idsLojas = <<>>
  /\ err = NilErr
  /\ Resultados = <<>>
  /\ clientCalls = 0
  /\ httpCalls = 0
  /\ gwCalled = FALSE
  /\ gwErr = NilErr
  /\ gwRet = <<>>
  /\ httpResp = NoResponse
  /\ tokenMutex = [c \in Clients |-> Unlocked]
  /\ answer = NoAnswer

(***************************************************************************)
(* Background renewer of client c: startTokenRenewal.                      *)
(***************************************************************************)
\* Variant of RenewToken in which the goroutine returns when an attempt
\* fails.
RenewTokenStopOnFailure(c) ==
  /\ renewer[c] = "authenticating"
  /\ \E in \in AuthInputs(c) :
       LET out == ClientRenewToken(c, in[1], in[2]) IN
         /\ accessToken' = IF out.write THEN [accessToken EXCEPT ![c] = out.token]
                           ELSE accessToken
         /\ authErr' = [client |-> c,
                         result |-> IF out.err = "nil" THEN "nil" ELSE "failed"]
         /\ renewer' = [renewer EXCEPT ![c] = IF out.err = "nil" THEN "idle" ELSE "stopped"]
  /\ UNCHANGED <<tokenMutex, requestVars>>

\* Variant of RenewToken that makes the next attempt at once, without the
\* ticker, when an attempt fails.
RenewTokenRetryNow(c) ==
  /\ renewer[c] = "authenticating"
  /\ \E in \in AuthInputs(c) :
       LET out == ClientRenewToken(c, in[1], in[2]) IN
         /\ accessToken' = IF out.write THEN [accessToken EXCEPT ![c] = out.token]
                           ELSE accessToken
         /\ authErr' = [client |-> c,
                         result |-> IF out.err = "nil" THEN "nil" ELSE "failed"]
         /\ renewer' = [renewer EXCEPT ![c] = IF out.err = "nil" THEN "idle"
                                               ELSE "authenticating"]
  /\ UNCHANGED <<tokenMutex, requestVars>>

\* One renewToken call, with the credentials cfg it reads from the
\* configuration and the platform's answer r: the first login or the body
\* of the ticker loop.  Whatever it returns is only logged.
RenewToken(c) ==
  /\ renewer[c] = "authenticating"
  /\ \E in \in AuthInputs(c) :
       LET out == ClientRenewToken(c, in[1], in[2]) IN
         /\ accessToken' = IF out.write THEN [accessToken EXCEPT ![c] = out.token]
                           ELSE accessToken
         /\ authErr' = [client |-> c,
                         result |-> IF out.err = "nil" THEN "nil" ELSE "failed"]
  /\ renewer' = [renewer EXCEPT ![c] = "idle"]
  /\ UNCHANGED <<tokenMutex, requestVars>>

\* Variant of Tick in which the attempt takes the mutex as writer before it
\* calls the platform.
TickHoldingLock(c) ==
  /\ renewer[c] = "idle"
  /\ tokenMutex[c] = Unlocked
  /\ tokenMutex' = [tokenMutex EXCEPT ![c].writer = TRUE]
  /\ renewer' = [renewer EXCEPT ![c] = "authenticating"]
  /\ UNCHANGED <<accessToken, authErr, requestVars>>

\* Variant of Tick that fires for an attempt of its own while an earlier
\* attempt of the client is still waiting for the mutex, as a second
\* renewer task would.
TickSecondRenewer(c) ==
  /\ renewer[c] \in {"idle", "locking"}
  /\ renewer' = [renewer EXCEPT ![c] = "authenticating"]
  /\ UNCHANGED <<accessToken, authErr, tokenMutex, requestVars>>

\* The ticker fires: for range ticker.C.
Tick(c) ==
  /\ renewer[c] = "idle"
  /\ renewer' = [renewer EXCEPT ![c] = "authenticating"]
  /\ UNCHANGED <<accessToken, authErr, tokenMutex, requestVars>>

(***************************************************************************)
(* Bulk operations: handleBulkOperation and ActivateMultipleStores /       *)
(* DeactivateMultipleStores.                                               *)
(***************************************************************************)
\* Variant of finalResponse that reports only the stores that succeeded.
KeepSucesso(res) == res.Sucesso
finalResponseOnlySuccess(p, resultados) ==
  <<[Plataforma |-> p, Resultados |-> SelectSeq(resultados, KeepSucesso)]>>

\* finalResponse as the operation returns it.
finalResponse(p, resultados) ==
  <<[Plataforma |-> p, Resultados |-> resultados]>>

\* Variant of HandleBulkOperation without the check of an empty ids_lojas.
HandleBulkOperationNoEmptyCheck(o, p, bodyOk, ids) ==
  /\ pc = "idle"
  /\ op' = o
  /\ plataforma' = p
  /\ IF p = "" \/ ~bodyOk
       THEN /\ pc' = "done"
            /\ idsLojas' = IF bodyOk THEN ids ELSE <<>>
            /\ httpResp' = BadRequest400
            /\ gwCalled' = FALSE
            /\ UNCHANGED <<gwErr, gwRet>>
       ELSE /\ idsLojas' = ids
            /\ gwCalled' = TRUE
            /\ IF Len(ids) = 0
                 THEN /\ gwErr' = NilErr
                      /\ gwRet' = finalResponse(p, <<>>)
                      /\ httpResp' = Ok200
                      /\ pc' = "done"
                 ELSE /\ pc' = "loop"
                      /\ httpResp' = NoResponse
                      /\ UNCHANGED <<gwErr, gwRet>>
  /\ UNCHANGED <<clientVars, err, Resultados, clientCalls, httpCalls, answer>>

\* handleBulkOperation up to the call of the gateway operation: the request
\* is rejected when the platform parameter is missing, the body does not
\* bind or ids_lojas is empty.  The gateway operation loops over the ids; a
\* loop over no id at all would return finalResponse at once.
HandleBulkOperation(o, p, bodyOk, ids) ==
  /\ pc = "idle"
  /\ op' = o
  /\ plataforma' = p
  /\ IF p = "" \/ ~bodyOk \/ Len(ids) = 0
       THEN /\ pc' = "done"
            /\ idsLojas' = IF bodyOk THEN ids ELSE <<>>
            /\ httpResp' = BadRequest400
            /\ gwCalled' = FALSE
            /\ UNCHANGED <<gwErr, gwRet>>
       ELSE /\ idsLojas' = ids
            /\ gwCalled' = TRUE
            /\ IF Len(ids) = 0
                 THEN /\ gwErr' = NilErr
                      /\ gwRet' = finalResponse(p, <<>>)
                      /\ httpResp' = Ok200
                      /\ pc' = "done"
                 ELSE /\ pc' = "loop"
                      /\ httpResp' = NoResponse
                      /\ UNCHANGED <<gwErr, gwRet>>
  /\ UNCHANGED <<clientVars, err, Resultados, clientCalls, httpCalls, answer>>

\* Variant of BulkItem that returns the first client error to the caller.
BulkItemAbort ==
  /\ pc = "loop"
  /\ Len(Resultados) < Len(idsLojas)
  /\ plataforma \in Clients
  /\ \E r \in OpResponses(plataforma) :
       LET idLoja == idsLojas[Len(Resultados) + 1]
           out == IF op = "ativar"
                    THEN ClientActivate(plataforma, accessToken[plataforma], r)
                    ELSE ClientDeactivate(plataforma, accessToken[plataforma], r)
           res == Append(Resultados,
                         IF op = "ativar" THEN ResultadoAtivar(idLoja, out.err)
                         ELSE ResultadoDesativar(idLoja, out.err))
       IN /\ err' = out.err
          /\ httpCalls' = out.http
          /\ IF out.err.kind # "nil"
               THEN /\ gwErr' = out.err
                    /\ httpResp' = handlePlatformError(plataforma, out.err)
                    /\ pc' = "done"
                    /\ UNCHANGED <<Resultados, gwRet>>
               ELSE /\ Resultados' = res
                    /\ IF Len(res) = Len(idsLojas)
                         THEN /\ gwErr' = NilErr
                              /\ gwRet' = finalResponse(plataforma, res)
                              /\ httpResp' = Ok200
                              /\ pc' = "done"
                         ELSE UNCHANGED <<pc, gwErr, gwRet, httpResp>>
  /\ clientCalls' = clientCalls + 1
  /\ UNCHANGED <<clientVars, op, plataforma, idsLojas, gwCalled, answer>>

\* Variant of BulkItem that refuses to activate a store an earlier item of
\* the batch has activated.
BulkItemAlreadyActive ==
  /\ pc = "loop"
  /\ Len(Resultados) < Len(idsLojas)
  /\ plataforma \in Clients
  /\ \E r \in OpResponses(plataforma) :
       LET idLoja == idsLojas[Len(Resultados) + 1]
           out == IF op = "ativar"
                    THEN ClientActivate(plataforma, accessToken[plataforma], r)
                    ELSE ClientDeactivate(plataforma, accessToken[plataforma], r)
           already == /\ op = "ativar"
                      /\ \E k \in 1..Len(Resultados) :
                           Resultados[k].IdLoja = idLoja /\ Resultados[k].Sucesso
           res == Append(Resultados,
                         IF already
                           THEN [IdLoja |-> idLoja, Status |-> StatusAtivo,
                                 Sucesso |-> FALSE, Erro |-> "already_active"]
                         ELSE IF op = "ativar" THEN ResultadoAtivar(idLoja, out.err)
                         ELSE ResultadoDesativar(idLoja, out.err))
       IN /\ err' = out.err
          /\ httpCalls' = out.http
          /\ Resultados' = res
          /\ IF Len(res) = Len(idsLojas)
               THEN /\ gwErr' = NilErr
                    /\ gwRet' = finalResponse(plataforma, res)
                    /\ httpResp' = Ok200
                    /\ pc' = "done"
               ELSE UNCHANGED <<pc, gwErr, gwRet, httpResp>>
  /\ clientCalls' = clientCalls + 1
  /\ UNCHANGED <<clientVars, op, plataforma, idsLojas, gwCalled, answer>>

\* Variant of BulkItem that drops the cached token when the platform
\* answers 401.
BulkItemClearOn401 ==
  /\ pc = "loop"
  /\ Len(Resultados) < Len(idsLojas)
  /\ plataforma \in Clients
  /\ \E r \in OpResponses(plataforma) :
       LET idLoja == idsLojas[Len(Resultados) + 1]
           out == IF op = "ativar"
                    THEN ClientActivate(plataforma, accessToken[plataforma], r)
                    ELSE ClientDeactivate(plataforma, accessToken[plataforma], r)
           res == Append(Resultados,
                         IF op = "ativar" THEN ResultadoAtivar(idLoja, out.err)
                         ELSE ResultadoDesativar(idLoja, out.err))
       IN /\ err' = out.err
          /\ httpCalls' = out.http
          /\ Resultados' = res
          /\ accessToken' = IF out.err.status = 401
                               THEN [accessToken EXCEPT ![plataforma] = ""]
                               ELSE accessToken
          /\ IF Len(res) = Len(idsLojas)
               THEN /\ gwErr' = NilErr
                    /\ gwRet' = finalResponse(plataforma, res)
                    /\ httpResp' = Ok200
                    /\ pc' = "done"
               ELSE UNCHANGED <<pc, gwErr, gwRet, httpResp>>
  /\ clientCalls' = clientCalls + 1
  /\ UNCHANGED <<renewer, authErr, tokenMutex, op, plataforma, idsLojas, gwCalled, answer>>

\* Variant of BulkItem in which the operation works on a snapshot of the
\* token: an item that follows one refused for lack of a token is given the
\* empty token again, whatever the cache holds by then.
BulkItemSnapshot ==
  /\ pc = "loop"
  /\ Len(Resultados) < Len(idsLojas)
  /\ plataforma \in Clients
  /\ \E r \in OpResponses(plataforma) :
       LET idLoja == idsLojas[Len(Resultados) + 1]
           tok == IF Len(Resultados) > 0 /\ err = PlainErr(MsgTokenIndisponivel)
                    THEN "" ELSE accessToken[plataforma]
           out == IF op = "ativar"
                    THEN ClientActivate(plataforma, tok, r)
                    ELSE ClientDeactivate(plataforma, tok, r)
           res == Append(Resultados,
                         IF op = "ativar" THEN ResultadoAtivar(idLoja, out.err)
                         ELSE ResultadoDesativar(idLoja, out.err))
       IN /\ err' = out.err
          /\ httpCalls' = out.http
          /\ Resultados' = res
          /\ IF Len(res) = Len(idsLojas)
               THEN /\ gwErr' = NilErr
                    /\ gwRet' = finalResponse(plataforma, res)
                    /\ httpResp' = Ok200
                    /\ pc' = "done"
               ELSE UNCHANGED <<pc, gwErr, gwRet, httpResp>>
  /\ clientCalls' = clientCalls + 1
  /\ UNCHANGED <<clientVars, op, plataforma, idsLojas, gwCalled, answer>>

\* Variant of BulkItem in which the clients share one token cache: the
\* item is processed with the token of the other client.
BulkItemSharedToken ==
  /\ pc = "loop"
  /\ Len(Resultados) < Len(idsLojas)
  /\ plataforma \in Clients
  /\ \E r \in OpResponses(plataforma), d \in Clients \ {plataforma} :
       LET idLoja == idsLojas[Len(Resultados) + 1]
           out == IF op = "ativar"
                    THEN ClientActivate(plataforma, accessToken[d], r)
                    ELSE ClientDeactivate(plataforma, accessToken[d], r)
           res == Append(Resultados,
                         IF op = "ativar" THEN ResultadoAtivar(idLoja, out.err)
                         ELSE ResultadoDesativar(idLoja, out.err))
       IN /\ err' = out.err
          /\ httpCalls' = out.http
          /\ Resultados' = res
          /\ IF Len(res) = Len(idsLojas)
               THEN /\ gwErr' = NilErr
                    /\ gwRet' = finalResponse(plataforma, res)
                    /\ httpResp' = Ok200
                    /\ pc' = "done"
               ELSE UNCHANGED <<pc, gwErr, gwRet, httpResp>>
  /\ clientCalls' = clientCalls + 1
  /\ UNCHANGED <<clientVars, op, plataforma, idsLojas, gwCalled, answer>>

\* One iteration of the loop: the switch on plataforma selects the client,
\* which reads its token and makes at most one HTTP call, and the outcome
\* of the item is appended.  The client reads the token cache when it is
\* called and nothing after that reads shared state, so the iteration is
\* one step; err and httpCalls are those of this iteration.  After the last
\* item the operation returns finalResponse, nil and the handler answers
\* 200 (the handler never passes an empty list).
BulkItem ==
  /\ pc = "loop"
  /\ Len(Resultados) < Len(idsLojas)
  /\ plataforma \in Clients
  /\ \E r \in OpResponses(plataforma) :
       LET idLoja == idsLojas[Len(Resultados) + 1]
           out == IF op = "ativar"
                    THEN ClientActivate(plataforma, accessToken[plataforma], r)
                    ELSE ClientDeactivate(plataforma, accessToken[plataforma], r)
           res == Append(Resultados,
                         IF op = "ativar" THEN ResultadoAtivar(idLoja, out.err)
                         ELSE ResultadoDesativar(idLoja, out.err))
       IN /\ err' = out.err
          /\ httpCalls' = out.http
          /\ Resultados' = res
          /\ IF Len(res) = Len(idsLojas)
               THEN /\ gwErr' = NilErr
                    /\ gwRet' = finalResponse(plataforma, res)
                    /\ httpResp' = Ok200
                    /\ pc' = "done"
               ELSE UNCHANGED <<pc, gwErr, gwRet, httpResp>>
  /\ clientCalls' = clientCalls + 1
  /\ UNCHANGED <<clientVars, op, plataforma, idsLojas, gwCalled, answer>>

\* The default case of the switch: the operation returns nil and the
\* unsupported-platform error, which the handler classifies.
BulkUnsupported ==
  /\ pc = "loop"
  /\ Len(Resultados) < Len(idsLojas)
  /\ plataforma \notin Clients
  /\ gwErr' = ErrPlataformaNaoSuportada(plataforma)
  /\ gwRet' = <<>>
  /\ httpResp' = handlePlatformError(plataforma, ErrPlataformaNaoSuportada(plataforma))
  /\ pc' = "done"
  /\ UNCHANGED <<clientVars, op, plataforma, idsLojas, err, Resultados, clientCalls,
                 httpCalls, gwCalled, answer>>

(***************************************************************************)
(* Single-store requests: StoreHandler.Activate / Deactivate and the       *)
(* gateway's ActivateStore / DeactivateStore.                              *)
(***************************************************************************)
\* Values of the :store_id path parameter.
StoreIdParams == StoreIds \cup {""}

\* The answers the platform may give to the one call of a single-store
\* request: one is drawn only when the client issues the call (the request
\* is valid and the client has a token).
SingleAnswers(p, idLoja) ==
  IF p \in Clients /\ idLoja # "" /\ accessToken[p] # ""
    THEN OpResponses(p) ELSE {NoAnswer}

\* (sh *StoreHandler) Activate, with the platform's answer r.
Activate(p, idLoja, r) ==
  /\ pc = "idle"
  /\ op' = "ativar_uma"
  /\ plataforma' = p
  /\ idsLojas' = <<idLoja>>
  /\ pc' = "done"
  /\ IF p = "" \/ idLoja = ""
       THEN /\ httpResp' = BadRequest400
            /\ gwCalled' = FALSE
            /\ UNCHANGED <<gwErr, gwRet, clientCalls, httpCalls>>
       ELSE /\ gwCalled' = TRUE
            /\ LET out == ActivateStore(p, idLoja, IF p \in Clients THEN accessToken[p] ELSE "", r)
               IN /\ gwErr' = out.err
                  /\ gwRet' = out.ret
                  /\ clientCalls' = out.calls
                  /\ httpCalls' = out.http
                  /\ httpResp' = IF out.err.kind # "nil"
                                   THEN handleSingleError(p, out.err) ELSE Ok200
  /\ UNCHANGED <<clientVars, err, Resultados>>

HandleActivate(p, idLoja) ==
  /\ pc = "idle"
  /\ \E r \in SingleAnswers(p, idLoja) : Activate(p, idLoja, r)
  /\ UNCHANGED answer

\* (sh *StoreHandler) Deactivate, with the platform's answer r.
Deactivate(p, idLoja, r) ==
  /\ pc = "idle"
  /\ op' = "desativar_uma"
  /\ plataforma' = p
  /\ idsLojas' = <<idLoja>>
  /\ pc' = "done"
  /\ IF p = "" \/ idLoja = ""
       THEN /\ httpResp' = BadRequest400
            /\ gwCalled' = FALSE
            /\ UNCHANGED <<gwErr, gwRet, clientCalls, httpCalls>>
       ELSE /\ gwCalled' = TRUE
            /\ LET out == DeactivateStore(p, idLoja, IF p \in Clients THEN accessToken[p] ELSE "", r)
               IN /\ gwErr' = out.err
                  /\ gwRet' = out.ret
                  /\ clientCalls' = out.calls
                  /\ httpCalls' = out.http
                  /\ httpResp' = IF out.err.kind # "nil"
                                   THEN handleSingleError(p, out.err) ELSE Ok200
  /\ UNCHANGED <<clientVars, err, Resultados>>

HandleDeactivate(p, idLoja) ==
  /\ pc = "idle"
  /\ \E r \in SingleAnswers(p, idLoja) : Deactivate(p, idLoja, r)
  /\ UNCHANGED answer

(***************************************************************************)
(* Status request: StoreHandler.GetMultipleStatus and the gateway's        *)
(* GetMultipleStoreStatus.                                                 *)
(***************************************************************************)
\* The comma-separated fields of the X-Lojas-IDs header; <<>> is the
\* missing (empty) header.
HeaderFields == UNION { [1..n -> StoreIds \cup {" "}] : n \in 0..MaxIds }

\* (ps *PlatformService) GetMultipleStoreStatus(plataforma, idsLojas) for the
\* token the client reads, the platform's answer r and the order keys in
\* which the map is ranged over.
GetMultipleStoreStatus(p, ids, tok, r, keys) ==
  IF ~isValidPlatform(p) THEN
    [err |-> ErrPlataformaNaoSuportada(p), ret |-> <<>>, calls |-> 0, http |-> 0]
  ELSE
    LET out == ClientGetMultipleStoreStatus(p, tok, ids, r) IN
      IF out.err.kind # "nil" THEN
        [err |-> Wrap(IF p = PlataformaAnotaAi
                        THEN <<"erro", "ao", "consultar", "status", "no", "AnotaAI", ":">>
                        ELSE <<"erro", "ao", "consultar", "status", "das", "lojas", "no",
                               "DeliveryVip", ":">>,
                      out.err),
         ret |-> <<>>, calls |-> 1, http |-> out.http]
      ELSE
        [err |-> NilErr,
         ret |-> <<[Plataforma |-> p, Lojas |-> Lojas(p, out.statusMap, ids, keys)]>>,
         calls |-> 1, http |-> out.http]

\* The answers the platform may give to the listing call of a status
\* request: one is drawn only when the client issues the call (the request
\* is valid and the client has a token).
StatusAnswers(p, fields) ==
  IF /\ p \in Clients
     /\ accessToken[p] # ""
     /\ ~(fields # <<>> /\ Len(ParseIds(fields)) = 0)
    THEN ListResponses(p) ELSE {NoAnswer}

\* (sh *StoreHandler) GetMultipleStatus, with the platform's answer r.  An
\* order of the map's keys is drawn only when the gateway ranges over the
\* map (no id was asked for).
GetMultipleStatus(p, fields, r) ==
  /\ pc = "idle"
  /\ op' = "status"
  /\ plataforma' = p
  /\ idsLojas' = ParseIds(fields)
  /\ pc' = "done"
  /\ IF p = "" \/ (fields # <<>> /\ Len(ParseIds(fields)) = 0)
       THEN /\ httpResp' = BadRequest400
            /\ gwCalled' = FALSE
            /\ UNCHANGED <<gwErr, gwRet, clientCalls, httpCalls>>
       ELSE /\ gwCalled' = TRUE
            /\ LET ids == ParseIds(fields)
                   tok == IF p \in Clients THEN accessToken[p] ELSE ""
                   sm == IF p \in Clients
                           THEN ClientGetMultipleStoreStatus(p, tok, ids, r).statusMap
                           ELSE EmptyMap
               IN \E keys \in (IF Len(ids) > 0 THEN {<<>>} ELSE KeyOrders(sm)) :
                    \E out \in {GetMultipleStoreStatus(p, ids, tok, r, keys)} :
                      /\ gwErr' = out.err
                      /\ gwRet' = out.ret
                      /\ clientCalls' = out.calls
                      /\ httpCalls' = out.http
                      /\ httpResp' = IF out.err.kind # "nil"
                                       THEN handleStatusError(out.err) ELSE Ok200
  /\ UNCHANGED <<clientVars, err, Resultados>>

HandleGetMultipleStatus(p, fields) ==
  /\ pc = "idle"
  /\ \E r \in StatusAnswers(p, fields) : GetMultipleStatus(p, fields, r)
  /\ UNCHANGED answer

\* The response has been sent; the server is ready for the next request.
Finish ==
  /\ pc = "done"
  /\ pc' = "idle"
  /\ op' = "none"
  /\ plataforma' = ""
  /\ idsLojas' = <<>>
  /\ err' = NilErr
  /\ Resultados' = <<>>
  /\ clientCalls' = 0
  /\ httpCalls' = 0
  /\ gwCalled' = FALSE
  /\ gwErr' = NilErr
  /\ gwRet' = <<>>
  /\ httpResp' = NoResponse
  /\ answer' = NoAnswer
  /\ UNCHANGED clientVars

Next ==
  \/ \E c \in Clients : RenewToken(c)
  \/ \E c \in Clients : Tick(c)
  \/ \E o \in BulkOps, p \in PlatformParams, bodyOk \in BOOLEAN, ids \in IdLists :
       HandleBulkOperation(o, p, bodyOk, ids)
  \/ \E p \in PlatformParams, idLoja \in StoreIdParams : HandleActivate(p, idLoja)
  \/ \E p \in PlatformParams, idLoja \in StoreIdParams : HandleDeactivate(p, idLoja)
  \/ \E p \in PlatformParams, fields \in HeaderFields : HandleGetMultipleStatus(p, fields)
  \/ BulkItem
  \/ BulkUnsupported
  \/ Finish

Spec == Init /\ [][Next]_vars

\* The renewers next to single-store requests only.
NextRenewer ==
  \/ \E c \in Clients : RenewToken(c)
  \/ \E c \in Clients : Tick(c)
  \/ \E p \in PlatformParams, idLoja \in StoreIdParams : HandleActivate(p, idLoja)
  \/ \E p \in PlatformParams, idLoja \in StoreIdParams : HandleDeactivate(p, idLoja)
  \/ Finish

\* The ticker of each renewer keeps firing and each authentication attempt
\* ends (the HTTP client has a timeout); requests come and go as they like.
LiveSpec ==
  /\ Init
  /\ [][NextRenewer]_vars
  /\ \A c \in Clients : WF_vars(Tick(c)) /\ WF_vars(RenewToken(c))

(***************************************************************************)
(* The token cache step by step: renewToken and getAccessToken with the    *)
(* sync.RWMutex calls they make.  The renewer of client c passes through   *)
(* "locking" (inside tokenMutex.Lock, waiting for the readers to leave)    *)
(* and "writing" (holding the lock, at the assignment of accessToken);     *)
(* operation calls of other goroutines are inside getAccessToken while     *)
(* they are counted in tokenMutex[c].readers.                              *)
(***************************************************************************)
\* Operation calls that may be inside getAccessToken of one client at once.
MaxReaders == 2

\* Variant of RenewTokenLock that goes to the assignment without calling
\* tokenMutex.Lock.
RenewTokenNoLock(c) ==
  /\ renewer[c] = "authenticating"
  /\ \E in \in AuthInputs(c) : ClientRenewToken(c, in[1], in[2]).write
  /\ renewer' = [renewer EXCEPT ![c] = "writing"]
  /\ UNCHANGED <<accessToken, authErr, tokenMutex, requestVars>>

\* renewToken got an answer it will store and calls tokenMutex.Lock.  Which
\* token the answer carries does not matter before the assignment, so it
\* is drawn there.
RenewTokenLock(c) ==
  /\ renewer[c] = "authenticating"
  /\ \E in \in AuthInputs(c) : ClientRenewToken(c, in[1], in[2]).write
  /\ renewer' = [renewer EXCEPT ![c] = "locking"]
  /\ UNCHANGED <<accessToken, authErr, tokenMutex, requestVars>>

\* tokenMutex.Lock returns: nobody else holds the mutex.
RenewTokenLocked(c) ==
  /\ renewer[c] = "locking"
  /\ tokenMutex[c] = Unlocked
  /\ tokenMutex' = [tokenMutex EXCEPT ![c].writer = TRUE]
  /\ renewer' = [renewer EXCEPT ![c] = "writing"]
  /\ UNCHANGED <<accessToken, authErr, requestVars>>

\* The assignment of accessToken, tokenMutex.Unlock and the return of nil,
\* which startTokenRenewal logs before it waits on the ticker.
RenewTokenWrite(c) ==
  /\ renewer[c] = "writing"
  /\ \E in \in AuthInputs(c) :
       LET out == ClientRenewToken(c, in[1], in[2]) IN
         /\ out.write
         /\ accessToken' = [accessToken EXCEPT ![c] = out.token]
  /\ tokenMutex' = [tokenMutex EXCEPT ![c].writer = FALSE]
  /\ authErr' = [client |-> c, result |-> "nil"]
  /\ renewer' = [renewer EXCEPT ![c] = "idle"]
  /\ UNCHANGED requestVars

\* renewToken returns an error before it reaches the cache.
RenewTokenFail(c) ==
  /\ renewer[c] = "authenticating"
  /\ \E in \in AuthInputs(c) : ~ClientRenewToken(c, in[1], in[2]).write
  /\ authErr' = [client |-> c, result |-> "failed"]
  /\ renewer' = [renewer EXCEPT ![c] = "idle"]
  /\ UNCHANGED <<accessToken, tokenMutex, requestVars>>

\* getAccessToken: tokenMutex.RLock returns when no writer holds the mutex
\* or waits for it.
GetAccessTokenRLock(c) ==
  /\ tokenMutex[c].readers < MaxReaders
  /\ ~tokenMutex[c].writer
  /\ renewer[c] # "locking"
  /\ tokenMutex' = [tokenMutex EXCEPT ![c].readers = @ + 1]
  /\ UNCHANGED <<accessToken, renewer, authErr, requestVars>>

\* getAccessToken returns accessToken; the deferred RUnlock runs.
GetAccessTokenReturn(c) ==
  /\ tokenMutex[c].readers > 0
  /\ tokenMutex' = [tokenMutex EXCEPT ![c].readers = @ - 1]
  /\ UNCHANGED <<accessToken, renewer, authErr, requestVars>>

NextLock ==
  \/ \E c \in Clients : RenewTokenLock(c)
  \/ \E c \in Clients : RenewTokenLocked(c)
  \/ \E c \in Clients : RenewTokenWrite(c)
  \/ \E c \in Clients : RenewTokenFail(c)
  \/ \E c \in Clients : Tick(c)
  \/ \E c \in Clients : GetAccessTokenRLock(c)
  \/ \E c \in Clients : GetAccessTokenReturn(c)

LockSpec == Init /\ [][NextLock]_vars

(***************************************************************************)
(* Requests observed together with what the platform answered.             *)
(***************************************************************************)
\* A server some time after start: each renewer has made its attempts and
\* waits on its ticker, each cache holds a token or none, and the last line
\* logged is a failed DeliveryVip attempt.
ObservedInit ==
  /\ accessToken \in [Clients -> TokenValues]
  /\ renewer = [c \in Clients |-> "idle"]
  /\ authErr = [client |-> PlataformaDeliveryVip, result |-> "failed"]
  /\ pc = "idle"
  /\ op = "none"
  /\ plataforma = ""
  /\ idsLojas = <<>>
  /\ err = NilErr
  /\ Resultados = <<>>
  /\ clientCalls = 0
  /\ httpCalls = 0
  /\ gwCalled = FALSE
  /\ gwErr = NilErr
  /\ gwRet = <<>>
  /\ httpResp = NoResponse
  /\ tokenMutex = [c \in Clients |-> Unlocked]
  /\ answer = NoAnswer

\* The single-store and status requests, the platform's answer recorded.
\* A request is taken up when the server is idle.
ObservedActivate(p, idLoja) ==
  /\ pc = "idle"
  /\ \E r \in SingleAnswers(p, idLoja) : Activate(p, idLoja, r) /\ answer' = r

ObservedDeactivate(p, idLoja) ==
  /\ pc = "idle"
  /\ \E r \in SingleAnswers(p, idLoja) : Deactivate(p, idLoja, r) /\ answer' = r

ObservedGetMultipleStatus(p, fields) ==
  /\ pc = "idle"
  /\ \E r \in StatusAnswers(p, fields) : GetMultipleStatus(p, fields, r) /\ answer' = r

NextObserved ==
  \/ \E p \in PlatformParams, idLoja \in StoreIdParams : ObservedActivate(p, idLoja)
  \/ \E p \in PlatformParams, idLoja \in StoreIdParams : ObservedDeactivate(p, idLoja)
  \/ \E p \in PlatformParams, fields \in HeaderFields : ObservedGetMultipleStatus(p, fields)
  \/ Finish

ObservedSpec == ObservedInit /\ [][NextObserved]_vars

(***************************************************************************)
(* The bulk loop statement by statement: the client call of an iteration   *)
(* and the append of its outcome are separate steps, the request being at  *)
(* "called" between the two.                                               *)
(***************************************************************************)
\* Variant of BulkCall that also starts while the outcome of the previous
\* call is not yet recorded.
BulkCallAhead ==
  /\ pc \in {"loop", "called"}
  /\ clientCalls < Len(idsLojas)
  /\ plataforma \in Clients
  /\ \E r \in OpResponses(plataforma) :
       \E out \in {IF op = "ativar"
                     THEN ClientActivate(plataforma, accessToken[plataforma], r)
                     ELSE ClientDeactivate(plataforma, accessToken[plataforma], r)} :
         /\ err' = out.err
         /\ httpCalls' = out.http
  /\ clientCalls' = clientCalls + 1
  /\ pc' = "called"
  /\ UNCHANGED <<clientVars, op, plataforma, idsLojas, Resultados, gwCalled, gwErr,
                 gwRet, httpResp, answer>>

\* The switch of an iteration: the client method is called for the next id
\* and returns err.
BulkCall ==
  /\ pc = "loop"
  /\ Len(Resultados) < Len(idsLojas)
  /\ plataforma \in Clients
  /\ \E r \in OpResponses(plataforma) :
       \E out \in {IF op = "ativar"
                     THEN ClientActivate(plataforma, accessToken[plataforma], r)
                     ELSE ClientDeactivate(plataforma, accessToken[plataforma], r)} :
         /\ err' = out.err
         /\ httpCalls' = out.http
  /\ clientCalls' = clientCalls + 1
  /\ pc' = "called"
  /\ UNCHANGED <<clientVars, op, plataforma, idsLojas, Resultados, gwCalled, gwErr,
                 gwRet, httpResp, answer>>

\* The rest of the iteration: resultado is built from err and appended;
\* after the last id the operation returns and the handler answers 200.
BulkRecord ==
  /\ pc = "called"
  /\ LET idLoja == idsLojas[Len(Resultados) + 1]
         res == Append(Resultados,
                       IF op = "ativar" THEN ResultadoAtivar(idLoja, err)
                       ELSE ResultadoDesativar(idLoja, err))
     IN /\ Resultados' = res
        /\ IF Len(res) = Len(idsLojas)
             THEN /\ gwErr' = NilErr
                  /\ gwRet' = finalResponse(plataforma, res)
                  /\ httpResp' = Ok200
                  /\ pc' = "done"
             ELSE /\ pc' = "loop"
                  /\ UNCHANGED <<gwErr, gwRet, httpResp>>
  /\ UNCHANGED <<clientVars, op, plataforma, idsLojas, err, clientCalls, httpCalls,
                 gwCalled, answer>>

NextSequential ==
  \/ \E o \in BulkOps, p \in PlatformParams, bodyOk \in BOOLEAN, ids \in IdLists :
       HandleBulkOperation(o, p, bodyOk, ids)
  \/ BulkCall
  \/ BulkRecord
  \/ BulkUnsupported
  \/ Finish

SequentialSpec == ObservedInit /\ [][NextSequential]_vars

(***************************************************************************)
(* Properties.                                                             *)
(***************************************************************************)
\* A bulk request on a supported platform has been answered.
BulkDone == pc = "done" /\ op \in BulkOps /\ gwCalled /\ plataforma \in Clients

\* The step appends the outcome of a bulk item; err' is the error its
\* client call returned and Resultados' ends with the recorded outcome.
RecordStep == pc = "loop" /\ Len(Resultados') = Len(Resultados) + 1
Recorded == Resultados'[Len(Resultados')]

\* The step invokes a client method for the request's platform.
ClientCallStep == clientCalls' > clientCalls /\ plataforma' \in Clients

\* The error the client method invoked by the step returned.
ClientErr == IF op \in BulkOps THEN err ELSE gwErr

\* The recognized not-found conditions of an item's failure.
IsNotFound(e) ==
  \/ e.kind = "dv" /\ e.tipo = ErroNaoEncontrado
  \/ e.kind # "nil" /\ Contains(ErrorText(e), LojaNaoEncontradaPattern)
  \/ e.kind # "nil" /\ Contains(ErrorText(e), StoreNotFoundPattern)

\* C1: a bulk activate/deactivate on a supported platform returns a result
\* list with exactly one entry per submitted store id, the i-th entry
\* carrying the i-th submitted id, whatever the per-item outcomes.
BulkResultHasOneEntryPerId ==
  BulkDone =>
    /\ Len(gwRet) = 1
    /\ Len(gwRet[1].Resultados) = Len(idsLojas)
    /\ \A k \in 1..Len(idsLojas) : gwRet[1].Resultados[k].IdLoja = idsLojas[k]

\* C1 witness: a repeated id, first failing and then succeeding.
BulkResultWitness ==
  /\ BulkDone
  /\ idsLojas = <<"s2", "s2">>
  /\ Len(gwRet) = 1
  /\ ~gwRet[1].Resultados[1].Sucesso
  /\ gwRet[1].Resultados[2].Sucesso

\* C2: a failing item never aborts the batch: the client is invoked for
\* every item of the list and the operation returns without error.
BulkNeverAborts ==
  BulkDone =>
    /\ gwErr = NilErr
    /\ clientCalls = Len(idsLojas)
    /\ httpResp = Ok200

\* C2 witness: the first of two items failed, the second was still called
\* and succeeded.
BulkNeverAbortsWitness ==
  /\ BulkDone
  /\ Len(idsLojas) = 2
  /\ clientCalls = 2
  /\ ~Resultados[1].Sucesso
  /\ Resultados[1].Erro = ErroBadGateway
  /\ Resultados[2].Sucesso

\* C3: for a platform identifier outside {anotaai, deliveryvip} every gateway
\* operation returns the unsupported-platform error and nothing else, the
\* handler classifies it not_found, and no client method is invoked and no
\* HTTP call issued at any point of the request.
UnsupportedPlatformRejected ==
  (op # "none" /\ plataforma \notin Clients) =>
    /\ clientCalls = 0
    /\ httpCalls = 0
    /\ (pc = "done" /\ gwCalled) =>
         /\ gwErr = ErrPlataformaNaoSuportada(plataforma)
         /\ gwRet = <<>>
         /\ httpResp = [code |-> 404, error |-> ErroNaoEncontrado]
    /\ (pc = "done" /\ ~gwCalled) => httpResp = BadRequest400

\* C3 witness: a status query for an unsupported platform was rejected by
\* the gateway.
UnsupportedPlatformWitness ==
  /\ pc = "done"
  /\ op = "status"
  /\ plataforma = "ifood"
  /\ gwCalled
  /\ idsLojas = <<"s1">>
  /\ httpResp.code = 404

EmptyTokenFailsFast ==
  [][(ClientCallStep /\ accessToken[plataforma'] = "") =>
       /\ ClientErr'.kind = "plain"
       /\ ClientErr'.msg = MsgTokenIndisponivel
       /\ httpCalls' = 0]_vars

\* C5 witness: a status query failed for lack of a token while the renewer
\* of its client was in the middle of an authentication attempt.
EmptyTokenWitness ==
  /\ pc = "done"
  /\ op = "status"
  /\ plataforma = PlataformaDeliveryVip
  /\ clientCalls = 1
  /\ httpCalls = 0
  /\ gwErr.msg = MsgTokenIndisponivel
  /\ accessToken[PlataformaDeliveryVip] = ""
  /\ renewer[PlataformaDeliveryVip] = "authenticating"

\* C6: an authentication attempt that fails, for whatever reason, leaves
\* the cached token of its client as it was.
FailedAuthKeepsToken ==
  [][\A c \in Clients :
       (renewer[c] = "authenticating" /\ renewer'[c] = "idle" /\ authErr'.result # "nil")
         => accessToken'[c] = accessToken[c]]_vars

\* C6 witness: an authentication attempt of AnotaAI failed while a token
\* was cached, and the token is still there.
FailedAuthWitness ==
  /\ authErr = [client |-> PlataformaAnotaAi, result |-> "failed"]
  /\ renewer[PlataformaAnotaAi] = "idle"
  /\ accessToken[PlataformaAnotaAi] = "tk1"

\* C7: the renewer of each client never stops: it is attempting to
\* authenticate infinitely often and idle-waiting infinitely often,
\* whatever its attempts return.
RenewerNeverStops ==
  \A c \in Clients :
    /\ []<>(renewer[c] = "authenticating")
    /\ []<>(renewer[c] = "idle")

\* C7 witness: after a failed attempt both renewers are attempting again,
\* no token having been obtained so far.
RenewerRetriesWitness ==
  /\ authErr.result = "failed"
  /\ \A c \in Clients : renewer[c] = "authenticating" /\ accessToken[c] = ""

\* C8: a bulk item whose client call fails with a recognized not-found
\* condition is recorded with status nao_encontrado, success false and error
\* kind not_found.
NotFoundItemRecorded ==
  [][(RecordStep /\ IsNotFound(err')) =>
       /\ Recorded.Status = StatusNaoEncontrado
       /\ ~Recorded.Sucesso
       /\ Recorded.Erro = ErroNaoEncontrado]_vars

\* C9: a bulk item whose client call fails for another reason than not-found
\* is recorded with success false and an error kind: the kind of the
\* DeliveryVipError when the error is one, bad_gateway otherwise.
OtherFailureItemRecorded ==
  [][(RecordStep /\ err'.kind # "nil" /\ ~IsNotFound(err')) =>
       /\ ~Recorded.Sucesso
       /\ Recorded.Erro \in TipoErro
       /\ Recorded.Erro = IF err'.kind = "dv" THEN err'.tipo ELSE ErroBadGateway]_vars

\* C9 witness: a DeliveryVip 401 recorded as unauthorized, followed by a
\* failure for lack of a token recorded as bad_gateway.
OtherFailureWitness ==
  /\ BulkDone
  /\ plataforma = PlataformaDeliveryVip
  /\ Len(Resultados) = 2
  /\ Resultados[1].Erro = ErroNaoAutorizado
  /\ Resultados[2].Erro = ErroBadGateway

\* C10: a bulk item whose client call succeeds is recorded with success
\* true, no error kind and the new state as status (ativo for activate,
\* inativo for deactivate); and an entry has no error kind only if it
\* succeeded.
SuccessItemRecorded ==
  [][/\ (RecordStep /\ err'.kind = "nil") =>
          /\ Recorded.Sucesso
          /\ Recorded.Erro = "nil"
          /\ Recorded.Status = IF op = "ativar" THEN StatusAtivo ELSE StatusInativo
     /\ \A k \in 1..Len(Resultados') :
          Resultados'[k].Erro = "nil" => Resultados'[k].Sucesso]_vars

\* C10 witness: a deactivation that succeeded for the first store and
\* failed for the second.
SuccessItemWitness ==
  /\ BulkDone
  /\ op = "desativar"
  /\ Len(Resultados) = 2
  /\ Resultados[1] = [IdLoja |-> "s1", Status |-> StatusInativo, Sucesso |-> TRUE,
                      Erro |-> "nil"]
  /\ ~Resultados[2].Sucesso

\* A status request that the gateway answered with a store list, and the
\* listing the platform sent for it.
StatusDone ==
  /\ pc = "done"
  /\ op = "status"
  /\ gwCalled
  /\ plataforma \in Clients
  /\ gwErr = NilErr
  /\ gwRet # <<>>

\* The ids a listing has and the state it gives for a listed store.
ListedIds(c, docs) ==
  IF c = PlataformaAnotaAi THEN { docs[k].PageID : k \in 1..Len(docs) }
  ELSE { docs[k].ID : k \in 1..Len(docs) }

ListedStates(c, docs, id) ==
  IF c = PlataformaAnotaAi
    THEN { IF docs[k].Active THEN StatusAtivo ELSE StatusInativo :
           k \in { j \in 1..Len(docs) : docs[j].PageID = id } }
    ELSE { IF docs[k].Status = "ACTIVATED" /\ ~docs[k].Blocked
             THEN StatusAtivo ELSE StatusInativo :
           k \in { j \in 1..Len(docs) : docs[j].ID = id } }

\* The status the listing docs calls for, for a requested id.
Expected(c, docs, id, status) ==
  IF id \in ListedIds(c, docs)
    THEN status \in ListedStates(c, docs, id)
    ELSE status = StatusNaoEncontrado

\* C11: a status query with a non-empty id filter reports not-found for
\* every requested id the platform's listing does not have and the listed
\* state for every id it has; the entry of an id is the same wherever and
\* however often the id is written in the filter.
FilteredStatusIsTrueState ==
  (StatusDone /\ Len(idsLojas) > 0) =>
    LET lojas == gwRet[1].Lojas IN
      /\ Len(lojas) = Len(idsLojas)
      /\ \A k \in 1..Len(lojas) :
           /\ lojas[k].IdLoja = idsLojas[k]
           /\ Expected(plataforma, answer.docs, idsLojas[k], lojas[k].Status)
      /\ \A j, k \in 1..Len(lojas) :
           idsLojas[j] = idsLojas[k] => lojas[j].Status = lojas[k].Status

\* C12: a status query without id filter reports, on each supported
\* platform, exactly the stores of the platform's listing, one entry per
\* store, each with the state the listing gives it.
UnfilteredStatusListsEveryStore ==
  (StatusDone /\ Len(idsLojas) = 0) =>
    LET lojas == gwRet[1].Lojas
        listed == ListedIds(plataforma, answer.docs)
    IN /\ { lojas[k].IdLoja : k \in 1..Len(lojas) } = listed
       /\ Len(lojas) = Cardinality(listed)
       /\ \A k \in 1..Len(lojas) :
            Expected(plataforma, answer.docs, lojas[k].IdLoja, lojas[k].Status)

\* The kind the precedence gives the failure e: the kind of a
\* DeliveryVipError, else not_found for a message with a not-found pattern,
\* else bad_gateway.
Precedence(e) ==
  IF e.kind = "dv" THEN e.tipo
  ELSE IF Contains(ErrorText(e), LojaNaoEncontradaPattern)
          \/ Contains(ErrorText(e), StoreNotFoundPattern) THEN ErroNaoEncontrado
  ELSE ErroBadGateway

Rejected(e) ==
  e.kind # "nil" /\ (e.status = 401 \/ Contains(ErrorText(e), <<"401">>))

\* C14: a client call that fails because the cache holds no token, or
\* because the platform rejected the token, is classified unauthorized, in
\* the single, the bulk and the query path alike.
TokenFailureIsUnauthorized ==
  [][(ClientCallStep /\ (accessToken[plataforma'] = "" \/ Rejected(ClientErr'))) =>
       (IF op' \in BulkOps THEN Recorded.Erro ELSE httpResp'.error) = ErroNaoAutorizado]_vars

\* A single-store request that made its outbound call to AnotaAI.
AnotaAiCallDone ==
  /\ pc = "done"
  /\ op \in {"ativar_uma", "desativar_uma"}
  /\ plataforma = PlataformaAnotaAi
  /\ httpCalls = 1

\* C15: an AnotaAI activate or deactivate succeeds exactly when the platform
\* answered HTTP 200 with a decodable body whose success flag is true; a 200
\* with success=false, any other status and an undecodable body are failures.
AnotaAiSuccessNeedsStatusAndFlag ==
  AnotaAiCallDone =>
    (gwErr = NilErr <=>
       /\ ~answer.transport
       /\ answer.status = 200
       /\ answer.decodable
       /\ answer.success)

\* An activation answered 200 with success=false has failed.
AnotaAiSuccessWitness ==
  /\ AnotaAiCallDone
  /\ op = "ativar_uma"
  /\ ~answer.transport
  /\ answer.status = 200
  /\ answer.decodable
  /\ ~answer.success
  /\ gwErr # NilErr
  /\ httpResp.code = 502

\* C16: the token cache obeys reader/writer exclusion: the renewer is at
\* the assignment of the token only while it holds the mutex as writer, and
\* while a writer holds it no read (and, the renewer being the only writer
\* of its client, no other write) holds it; reads may hold it together.
TokenWriteExcludesReads ==
  \A c \in Clients :
    /\ renewer[c] = "writing" => tokenMutex[c].writer
    /\ tokenMutex[c].writer => tokenMutex[c].readers = 0 /\ renewer[c] = "writing"

\* A write holds the DeliveryVip cache while two reads hold the AnotaAI one.
TokenWriteWitness ==
  /\ renewer[PlataformaDeliveryVip] = "writing"
  /\ tokenMutex[PlataformaDeliveryVip] = [writer |-> TRUE, readers |-> 0]
  /\ tokenMutex[PlataformaAnotaAi] = [writer |-> FALSE, readers |-> 2]

RenewerAttemptsThenWaits ==
  /\ \A c \in Clients : renewer[c] = "authenticating" /\ accessToken[c] = ""
  /\ [][\A c \in Clients :
          /\ (renewer[c] = "authenticating" /\ renewer'[c] # renewer[c])
               => renewer'[c] = "idle"
          /\ ((authErr' # authErr /\ authErr'.client = c) \/ accessToken'[c] # accessToken[c])
               => (renewer[c] = "authenticating" /\ renewer'[c] = "idle")
          /\ (renewer[c] = "idle" /\ renewer'[c] # renewer[c])
               => /\ renewer'[c] = "authenticating"
                  /\ accessToken'[c] = accessToken[c]
                  /\ authErr' = authErr]_vars

\* The first DeliveryVip attempt has failed and its renewer waits on the
\* ticker, while AnotaAI is still in its first attempt.
RenewerFirstAttemptWitness ==
  /\ authErr = [client |-> PlataformaDeliveryVip, result |-> "failed"]
  /\ renewer[PlataformaDeliveryVip] = "idle"
  /\ accessToken[PlataformaDeliveryVip] = ""
  /\ renewer[PlataformaAnotaAi] = "authenticating"
  /\ accessToken[PlataformaAnotaAi] = ""

\* A single-store or status request that reached a platform client.
DirectRequestDone ==
  /\ pc = "done"
  /\ op \in {"ativar_uma", "desativar_uma", "status"}
  /\ gwCalled
  /\ plataforma \in Clients

\* C20: a single-store activate/deactivate and a status query invoke their
\* client once, which issues at most one outbound HTTP call, also when the
\* call fails (no retry); a failed call is surfaced directly: the gateway
\* returns the error and nothing else (for a query no store list, not even
\* a partial one) and the handler answers with an error.
AtMostOneCallNoRetry ==
  DirectRequestDone =>
    /\ clientCalls = 1
    /\ httpCalls <= 1
    /\ (httpCalls = 1 /\ (answer.transport \/ answer.status \notin {200, 202}))
         => gwErr # NilErr
    /\ gwErr # NilErr => (gwRet = <<>> /\ httpResp.code \in {404, 502})
    /\ gwErr = NilErr => (httpCalls = 1 /\ gwRet # <<>> /\ httpResp = Ok200)

\* A status query whose one listing call got no answer: 502, no list.
AtMostOneCallWitness ==
  /\ DirectRequestDone
  /\ op = "status"
  /\ plataforma = PlataformaDeliveryVip
  /\ httpCalls = 1
  /\ answer.transport
  /\ gwErr # NilErr
  /\ gwRet = <<>>
  /\ httpResp.code = 502

\* C21: a bulk operation goes through its ids one after the other: the
\* call for an id starts only when the outcome of every earlier call is
\* recorded, so at most one call of the request is outstanding, and the
\* k-th outcome recorded is that of the k-th id, each id once.
BulkIsSequential ==
  (op \in BulkOps /\ gwCalled /\ plataforma \in Clients) =>
    /\ clientCalls - Len(Resultados) = (IF pc = "called" THEN 1 ELSE 0)
    /\ httpCalls <= 1
    /\ Len(Resultados) <= Len(idsLojas)
    /\ \A k \in 1..Len(Resultados) : Resultados[k].IdLoja = idsLojas[k]
    /\ pc = "done" => Len(Resultados) = Len(idsLojas)

\* The call for the second id is outstanding, the first id recorded.
BulkIsSequentialWitness ==
  /\ op \in BulkOps
  /\ pc = "called"
  /\ idsLojas = <<"s1", "s2">>
  /\ Len(Resultados) = 1
  /\ clientCalls = 2
  /\ httpCalls = 1

\* C22: the cached token of a client is changed only by the renewer of
\* that client, in the step that ends an authentication attempt; a step of
\* a request (activate, deactivate, status, single or bulk, successful or
\* failed, a 401 of the platform included) leaves every token as it is.
TokenChangedOnlyByRenewer ==
  [][/\ \A c \in Clients :
          accessToken'[c] # accessToken[c] =>
            /\ renewer[c] = "authenticating"
            /\ renewer'[c] = "idle"
            /\ requestVars' = requestVars
     /\ requestVars' # requestVars => accessToken' = accessToken]_vars

\* A bulk item was answered 401 by DeliveryVip and the token is still cached.
TokenKeptAfter401Witness ==
  /\ op \in BulkOps
  /\ plataforma = PlataformaDeliveryVip
  /\ Len(Resultados) > 0
  /\ err.kind = "dv"
  /\ err.status = 401
  /\ Resultados[Len(Resultados)].Erro = ErroNaoAutorizado
  /\ accessToken[PlataformaDeliveryVip] = "tk1"

\* A single-store request whose one call the platform answered with a
\* status that is not the success status of the endpoint.
NonSuccessAnswered ==
  /\ pc = "done"
  /\ op \in {"ativar_uma", "desativar_uma"}
  /\ plataforma \in Clients
  /\ httpCalls = 1
  /\ ~answer.transport
  /\ answer.status # (IF plataforma = PlataformaDeliveryVip THEN 202 ELSE 200)

\* The raw body of an answer (the model gives AnotaAI error answers none).
RawBody(r) == IF "body" \in DOMAIN r THEN r.body ELSE <<>>

\* C23: every activate/deactivate answer with a non-success HTTP status
\* becomes a typed failure that carries the raw status and the raw body, on
\* both platforms and for every status.
FailureCarriesStatusAndBody ==
  NonSuccessAnswered =>
    /\ gwErr.kind = "dv"
    /\ gwErr.status = answer.status
    /\ Contains(gwErr.msg, RawBody(answer))

\* C24: in a bulk result the status of a failed entry never equals the
\* status a successful entry of the operation carries (active for activate,
\* inactive for deactivate): the status alone tells a failed item from a
\* succeeded one.
FailedEntryStatusDiffers ==
  (op \in BulkOps /\ plataforma \in Clients) =>
    \A k \in 1..Len(Resultados) :
      ~Resultados[k].Sucesso =>
        Resultados[k].Status # (IF op = "ativar" THEN StatusAtivo ELSE StatusInativo)

\* A single-store DeliveryVip request whose one call the platform answered.
DeliveryVipAnswered ==
  /\ pc = "done"
  /\ op \in {"ativar_uma", "desativar_uma"}
  /\ plataforma = PlataformaDeliveryVip
  /\ httpCalls = 1
  /\ ~answer.transport

\* The kind the claim gives a DeliveryVip failure of HTTP status s.
KindOfStatus(s) ==
  CASE s = 404 -> ErroNaoEncontrado
    [] s = 401 -> ErroNaoAutorizado
    [] s = 422 -> ErroRequisicaoInvalida
    [] OTHER -> ErroBadGateway

\* C25: a DeliveryVip activate/deactivate succeeds if and only if the HTTP
\* status is exactly 202; every other status, 200 included, yields a
\* DeliveryVipError whose kind is not_found for 404, unauthorized for 401,
\* invalid_request for 422 and bad_gateway otherwise.
DeliveryVipSuccessIffAccepted ==
  DeliveryVipAnswered =>
    /\ (gwErr = NilErr) <=> (answer.status = 202)
    /\ answer.status # 202 =>
         /\ gwErr.kind = "dv"
         /\ gwErr.tipo = KindOfStatus(answer.status)

DeliveryVipOk200IsFailureWitness ==
  /\ DeliveryVipAnswered
  /\ op = "desativar_uma"
  /\ answer.status = 200
  /\ gwErr.kind = "dv"
  /\ gwErr.tipo = ErroBadGateway

\* C26: token availability is monotonic: once a client's cache holds a
\* non-empty token, no later authentication attempt, successful or failed
\* and whatever the body of its answer, makes the cache empty again.
TokenAvailabilityIsMonotonic ==
  [][\A c \in Clients : accessToken[c] # "" => accessToken'[c] # ""]_vars

\* C27: a bulk operation takes no snapshot of the token: each item reads
\* the cache when it is processed, so an item processed while the cache is
\* empty gets the token-unavailable error without an HTTP call, and an item
\* processed after a write of the renewer is sent with the token, also when
\* earlier items of the same batch were refused for lack of one.
BulkReadsTokenPerItem ==
  [][RecordStep =>
       /\ (accessToken[plataforma] = "") <=> (err' = PlainErr(MsgTokenIndisponivel))
       /\ httpCalls' = (IF accessToken[plataforma] = "" THEN 0 ELSE 1)]_vars

\* C27 witness: the first item of a batch was refused for lack of a token
\* and the renewer has written one before the second item is processed.
BulkTokenArrivedBetweenItemsWitness ==
  /\ op \in BulkOps
  /\ pc = "loop"
  /\ plataforma = PlataformaDeliveryVip
  /\ Len(idsLojas) = 2
  /\ Len(Resultados) = 1
  /\ ~Resultados[1].Sucesso
  /\ err = PlainErr(MsgTokenIndisponivel)
  /\ httpCalls = 0
  /\ accessToken[PlataformaDeliveryVip] # ""

\* C28: the two clients are isolated: a step that changes one client's
\* token is a step of that client's own renewer and leaves the other
\* client's token as it was, no request step changes any token, and an
\* operation on a platform whose cache holds a token is sent to the
\* platform and never fails for lack of a token, whatever the state of the
\* other client's cache and renewer.
ClientsAreIsolated ==
  [][/\ \A c \in Clients :
          accessToken'[c] # accessToken[c] =>
            /\ authErr'.client = c
            /\ renewer'[c] # renewer[c]
            /\ \A d \in Clients \ {c} :
                 accessToken'[d] = accessToken[d] /\ renewer'[d] = renewer[d]
     /\ (ClientCallStep /\ accessToken[plataforma'] # "") =>
          /\ ClientErr' # PlainErr(MsgTokenIndisponivel)
          /\ ClientErr'.msg # MsgTokenIndisponivel
          /\ httpCalls' > 0
          /\ accessToken' = accessToken]_vars

\* C28 witness: a DeliveryVip activation succeeded while AnotaAI had no
\* token and its last authentication attempt had failed.
IsolatedClientsWitness ==
  /\ pc = "done"
  /\ op = "ativar_uma"
  /\ plataforma = PlataformaDeliveryVip
  /\ httpCalls = 1
  /\ gwErr = NilErr
  /\ accessToken[PlataformaDeliveryVip] # ""
  /\ accessToken[PlataformaAnotaAi] = ""
  /\ authErr = [client |-> PlataformaAnotaAi, result |-> "failed"]

\* The order in which one renewer passes through an authentication attempt.
RenewerSuccessors(st) ==
  CASE st = "idle" -> {"authenticating"}
    [] st = "authenticating" -> {"locking", "idle"}
    [] st = "locking" -> {"writing"}
    [] st = "writing" -> {"idle"}

\* C29: each client has one renewer task: an authentication attempt of a
\* client starts only when the previous one has ended, so at most one is
\* in flight; the token is written only by the attempt in flight, at its
\* end and holding the mutex alone, so the writes of one client are never
\* concurrent and follow one another in the order the attempts started.
OneRenewerPerClient ==
  [][\A c \in Clients :
       /\ renewer'[c] # renewer[c] => renewer'[c] \in RenewerSuccessors(renewer[c])
       /\ accessToken'[c] # accessToken[c] =>
            /\ renewer[c] = "writing"
            /\ renewer'[c] = "idle"
            /\ tokenMutex[c] = [writer |-> TRUE, readers |-> 0]
            /\ tokenMutex'[c].writer = FALSE]_vars

\* C29 witness: a later attempt of DeliveryVip is at its write while the
\* cache still holds what the earlier attempt wrote.
SecondAttemptWritingWitness ==
  /\ renewer[PlataformaDeliveryVip] = "writing"
  /\ tokenMutex[PlataformaDeliveryVip].writer
  /\ accessToken[PlataformaDeliveryVip] = "tk1"
  /\ authErr = [client |-> PlataformaDeliveryVip, result |-> "nil"]

\* The map the DeliveryVip client returned to the gateway for the answered
\* status request.
DeliveryVipStatusMap ==
  DeliveryVipGetMultipleStoreStatus(accessToken[PlataformaDeliveryVip], idsLojas,
                                    answer).statusMap

\* C30: for a DeliveryVip status query with a non-empty filter that
\* succeeds, the keys of the client's map are exactly the distinct
\* requested ids, so the gateway never takes its branch for an id missing
\* from the map (not-found is reported only for a key marked not found),
\* and the response has one entry per occurrence of a requested id, in
\* request order.
DeliveryVipMapHasRequestedKeys ==
  (StatusDone /\ plataforma = PlataformaDeliveryVip /\ Len(idsLojas) > 0) =>
    LET sm == DeliveryVipStatusMap
        lojas == gwRet[1].Lojas
    IN /\ DOMAIN sm = SeqRange(idsLojas)
       /\ Len(lojas) = Len(idsLojas)
       /\ \A k \in 1..Len(idsLojas) :
            /\ idsLojas[k] \in DOMAIN sm
            /\ lojas[k].IdLoja = idsLojas[k]
            /\ (lojas[k].Status = StatusNaoEncontrado) <=> ~sm[idsLojas[k]].Found

\* C30 witness: an id the listing does not have was asked for twice, and
\* the listing has a store that was not asked for.
DeliveryVipMapWitness ==
  /\ StatusDone
  /\ plataforma = PlataformaDeliveryVip
  /\ Len(idsLojas) = 2
  /\ idsLojas[1] = idsLojas[2]
  /\ idsLojas[1] \notin ListedIds(plataforma, answer.docs)
  /\ Len(answer.docs) > 0
  /\ Len(gwRet[1].Lojas) = 2
  /\ DOMAIN DeliveryVipStatusMap = {idsLojas[1]}

====
